---- MODULE Spec2Model ----
(***************************************************************************)
(* Model of the two browser widgets of ProgettoCommunity:                  *)
(*   - the anime-search flow (script.js: debounce, AbortController, cache) *)
(*   - the category-driven flow (codice.php: category buttons, fetchData)  *)
(* Every action is one event-loop task (an event handler, a timer          *)
(* callback or the continuation of a settled promise).                     *)
(***************************************************************************)
EXTENDS Integers, Sequences, FiniteSets, TLC

VARIABLES
  \* ---- DOM (the two pages use the same element ids) ----
  searchInput,      \* ui.searchInput.value, a sequence of characters
  perPageSelect,    \* ui.perPageSelect.value, a sequence of characters
  statusEl,         \* ui.statusEl.textContent
  searchBtn,        \* ui.searchBtn.disabled
  errorEl,          \* ui.errorEl: [display, textContent]
  tableHolder,      \* ui.tableHolder content: [kind, media]
  pager,            \* ui.pager / prevBtn / nextBtn: [display, prevDisabled, nextDisabled]
  inflight,         \* calls of fetchAnilist / fetchData suspended at an await
  \* ---- anime-search flow: script state ----
  currentPage,
  lastQuery,
  lastPageInfo,
  abortController,
  cache,            \* the Map, as the sequence of its entries in insertion order
  timers,           \* pending setTimeout callbacks of the debounced function
  \* ---- category-driven flow: script state ----
  state,            \* [currentFormat, page, perPage, search]
  \* ---- environment ----
  serverLastPage,   \* number of pages the catalog has
  mediaItem,        \* a MediaItem of an answered page: [characters, staff]
  resolved,         \* the table row renderTable built for mediaItem
  sinceInput,       \* ms elapsed since the last input event (saturating)
  budget,           \* fetch() calls the run may still issue
  \* ---- history ----
  burst,            \* the current input burst: [typed, multi, fires]
  lastCallKey,      \* cache key of the most recent fetchAnilist call
  stored,           \* the keys passed to cache.set, in order
  lastEvent         \* what the last task did

animeVars == <<searchInput, perPageSelect, statusEl, searchBtn, errorEl,
               tableHolder, pager, currentPage, lastQuery, lastPageInfo,
               abortController, cache, timers, inflight, serverLastPage,
               sinceInput, budget, burst, lastCallKey, stored,
               lastEvent>>

vars == <<animeVars, state, mediaItem, resolved>>

-----------------------------------------------------------------------------
(* Bounds *)

\* number of pages of the small catalog
SmallCatalog == 2
\* fetch() calls issued in one run
MaxRequests == 3
\* pages the large catalog has beyond the capacity of the cache
CacheExtra == 2
\* granularity of the clock, in ms
TickMs == 250

\* values the user types into the search box
InputValues == { <<" ">>, <<"a">>, <<" ", "b", " ">> }
\* requests the category-driven flow sends in one run
MaxCatRequests == 2
\* values the user types into the search box of the category-driven page
CatInputValues == { <<" ">>, <<"a", " ">> }
\* values of the page-size select
PerPageValues == { <<"2", "0">>, <<"x">> }
\* edges in the character list or the staff list of a MediaItem
MaxEdges == 3

-----------------------------------------------------------------------------
(* Program constants *)

DEBOUNCE_WAIT == 500
DEFAULT_PER_PAGE == 20
CAT_PER_PAGE == 20
CACHE_LIMIT == 50

\* null, for abortController
Null == "null"
\* null, for lastPageInfo
NullPageInfo ==
  [ total |-> -1, currentPage |-> -1, lastPage |-> -1,
    hasNextPage |-> FALSE, perPage |-> -1 ]
\* null, for variables.search
JsNull == <<"null">>
\* NaN, for parseInt
NaN == -1
\* no cache key
NoKey == <<"-">>

-----------------------------------------------------------------------------
(* Strings *)

IsSpace(c) == c = " "

RECURSIVE TrimStart(_)
TrimStart(s) ==
  IF s # <<>> /\ IsSpace(Head(s)) THEN TrimStart(Tail(s)) ELSE s

RECURSIVE TrimEnd(_)
TrimEnd(s) ==
  IF s # <<>> /\ IsSpace(s[Len(s)]) THEN TrimEnd(SubSeq(s, 1, Len(s) - 1)) ELSE s

\* the search text used as typed
NoTrim(s) == s

\* String.prototype.trim
Trim(s) == TrimEnd(TrimStart(s))

DigitChars == <<"0", "1", "2", "3", "4", "5", "6", "7", "8", "9">>

DigitValue(c) == (CHOOSE i \in 1..10 : DigitChars[i] = c) - 1

IsDigit(c) == \E i \in 1..10 : DigitChars[i] = c

RECURSIVE ParseDigits(_, _)
ParseDigits(s, acc) ==
  IF s # <<>> /\ IsDigit(Head(s))
    THEN ParseDigits(Tail(s), 10 * acc + DigitValue(Head(s)))
    ELSE acc

\* parseInt(s, 10): NaN when s does not start with a digit
ParseInt(s) ==
  LET t == TrimStart(s) IN
  IF t # <<>> /\ IsDigit(Head(t)) THEN ParseDigits(t, 0) ELSE NaN

\* parseInt(ui.perPageSelect.value, 10) || 20
PerPageOf(v) ==
  LET n == ParseInt(v) IN
  IF n = NaN THEN DEFAULT_PER_PAGE
  ELSE IF n = 0 THEN DEFAULT_PER_PAGE ELSE n

RECURSIVE IntToChars(_)
\* String(n) for n >= 0
IntToChars(n) ==
  IF n < 10 THEN <<DigitChars[n + 1]>>
  ELSE IntToChars(n \div 10) \o <<DigitChars[(n % 10) + 1]>>

\* `${search}|${page}|${perPage}`
CacheKey(search, page, perPage) ==
  search \o <<"|">> \o IntToChars(page) \o <<"|">> \o IntToChars(perPage)

RECURSIVE JoinBare(_, _)
\* the messages run together, the separator dropped
JoinBare(msgs, sep) ==
  IF msgs = <<>> THEN ""
  ELSE IF Len(msgs) = 1 THEN msgs[1]
  ELSE msgs[1] \o JoinBare(Tail(msgs), sep)

RECURSIVE Join(_, _)
\* Array.prototype.join
Join(msgs, sep) ==
  IF msgs = <<>> THEN ""
  ELSE IF Len(msgs) = 1 THEN msgs[1]
  ELSE msgs[1] \o sep \o Join(Tail(msgs), sep)

\* a || b on strings
OrElse(a, b) == IF a = "" THEN b ELSE a

-----------------------------------------------------------------------------
(* The Map used as cache *)

CacheIndex(c, key) ==
  IF \E i \in 1..Len(c) : c[i].key = key
    THEN CHOOSE i \in 1..Len(c) : c[i].key = key
    ELSE 0

\* a lookup that never finds the key
CacheHasNever(c, key) == FALSE

CacheHas(c, key) == CacheIndex(c, key) # 0

CacheGet(c, key) == c[CacheIndex(c, key)].value

\* Map.prototype.set: an existing key keeps its position
CacheSet(c, key, value) ==
  IF CacheHas(c, key)
    THEN [c EXCEPT ![CacheIndex(c, key)].value = value]
    ELSE Append(c, [key |-> key, value |-> value])

\* the newest entry deleted instead of the oldest
CacheDeleteLast(c) == SubSeq(c, 1, Len(c) - 1)

\* cache.keys().next().value followed by cache.delete
CacheDeleteFirst(c) == Tail(c)

\* the insertion without the size check
CachePutUnbounded(c, key, value) == CacheSet(c, key, value)

\* cache.set(cacheKey, pageData); if (cache.size > 50) delete the first key
CachePut(c, key, value) ==
  LET d == CacheSet(c, key, value) IN
  IF Len(d) > CACHE_LIMIT THEN CacheDeleteFirst(d) ELSE d

CacheKeys(c) == { c[i].key : i \in 1..Len(c) }

-----------------------------------------------------------------------------
(* The API, as seen by the anime-search query *)

PageInfo(page, perPage) ==
  [ total       |-> serverLastPage * perPage,
    currentPage |-> page,
    lastPage    |-> serverLastPage,
    hasNextPage |-> page < serverLastPage,
    perPage     |-> perPage ]

\* one row stands for the rows of the answered page
Media(search, page, perPage) ==
  IF page <= serverLastPage
    THEN << [search |-> search, page |-> page, perPage |-> perPage] >>
    ELSE << >>

ServerPage(search, page, perPage) ==
  [ pageInfo |-> PageInfo(page, perPage),
    media    |-> Media(search, page, perPage) ]

\* payload.errors of an API-level failure
ErrorLists == { <<"bad">>, <<"bad", "worse">> }

\* the page counters stop one page past the end of the catalog
PageCap == serverLastPage + 1

-----------------------------------------------------------------------------
(* DOM helpers of the anime-search flow *)

\* showError / clearError
ShowError(msg) == [display |-> "block", textContent |-> msg]
ClearError == [display |-> "none", textContent |-> ""]

BlankTable == [kind |-> "blank", media |-> << >>]

\* renderTable: clearTable, then the rows or the 'no results' message
RenderTable(mediaArray) ==
  IF mediaArray = << >>
    THEN [kind |-> "none", media |-> << >>]
    ELSE [kind |-> "rows", media |-> mediaArray]

\* clearTable hides the pager; renderPager shows it again from lastPageInfo
RenderPager(p, pi) ==
  IF pi = NullPageInfo \/ pi.lastPage <= 1
    THEN [p EXCEPT !.display = "none"]
    ELSE [ display      |-> "flex",
           prevDisabled |-> (pi.currentPage <= 1),
           nextDisabled |-> ~pi.hasNextPage ]

ClearTablePager(p) == [p EXCEPT !.display = "none"]

-----------------------------------------------------------------------------
(* History records *)

Ev(op) ==
  [ op       |-> op,        \* the task
    key      |-> NoKey,     \* cache key of the fetchAnilist call or request
    hit      |-> FALSE,     \* the call was answered from the cache
    net      |-> FALSE,     \* the task called fetch()
    outcome  |-> "none",    \* how a request settled
    errors   |-> << >>,     \* payload.errors of an API failure
    rendered |-> FALSE,     \* the task rendered the table
    stale    |-> FALSE,     \* the settled request had been superseded
    retry    |-> FALSE ]    \* the call repeats the request that just failed

Triggers == {"enter", "click", "prev", "next", "perpage", "timer"}

-----------------------------------------------------------------------------
(* fetchAnilist *)

\* an abort() that reaches no request
AbortNothing(reqs) == reqs

\* abortController.abort(): aborts the signal of the request that owns the
\* controller, if that request is still suspended
Abort(reqs) ==
  [i \in 1..Len(reqs) |->
     IF reqs[i].owner THEN [reqs[i] EXCEPT !.aborted = TRUE] ELSE reqs[i]]

Disown(reqs) == [i \in 1..Len(reqs) |-> [reqs[i] EXCEPT !.owner = FALSE]]

\* a later search was started while these were pending
Supersede(reqs) == [i \in 1..Len(reqs) |-> [reqs[i] EXCEPT !.stale = TRUE]]

NewRequest(search, page, perPage) ==
  [ search  |-> search, page |-> page, perPage |-> perPage,
    key     |-> CacheKey(search, page, perPage),
    stage   |-> "fetch",
    aborted |-> FALSE,
    owner   |-> TRUE,
    stale   |-> FALSE ]

\* the part of fetchAnilist up to `return cached` or to `await fetch`,
\* and, on a cache hit, the rest of doSearch
FetchAnilist(search, page, perPage, op) ==
  LET cacheKey == CacheKey(search, page, perPage) IN
  /\ lastCallKey' = cacheKey
  /\ IF CacheHas(cache, cacheKey)
       THEN LET cached == CacheGet(cache, cacheKey) IN
            /\ errorEl' = ClearError
            /\ lastPageInfo' = cached.pageInfo
            /\ statusEl' = "Dati dalla cache"
            /\ searchBtn' = [disabled |-> FALSE]
            /\ tableHolder' = RenderTable(cached.media)
            /\ pager' = RenderPager(ClearTablePager(pager), cached.pageInfo)
            /\ inflight' = Supersede(inflight)
            /\ UNCHANGED <<abortController, cache, budget>>
            /\ lastEvent' = [Ev(op) EXCEPT !.key = cacheKey, !.hit = TRUE, !.rendered = TRUE]
       ELSE /\ budget > 0
            /\ budget' = budget - 1
            /\ errorEl' = ClearError
            /\ statusEl' = "Caricamento..."
            /\ searchBtn' = [disabled |-> TRUE]
            /\ abortController' = "controller"
            /\ inflight' = Append(Disown(Abort(Supersede(inflight))),
                                  NewRequest(search, page, perPage))
            /\ UNCHANGED <<lastPageInfo, cache, tableHolder, pager>>
            /\ lastEvent' = [Ev(op) EXCEPT !.key = cacheKey, !.net = TRUE,
                                            !.retry = /\ lastEvent.op = "settle"
                                                      /\ lastEvent.outcome # "ok"
                                                      /\ lastEvent.key = cacheKey]

\* doSearch(page), reading the two form fields
DoSearch(page, value, select, op) ==
  LET q == Trim(value) IN
  IF q = << >>
    THEN /\ statusEl' = "Inserisci un termine di ricerca."
         /\ lastEvent' = Ev(op)
         /\ UNCHANGED <<currentPage, lastQuery, lastPageInfo, abortController,
                        cache, inflight, searchBtn, errorEl, tableHolder,
                        pager, lastCallKey, budget>>
    ELSE /\ currentPage' = page
         /\ lastQuery' = q
         /\ FetchAnilist(q, page, PerPageOf(select), op)

\* a promise rejected by abort() resumes before any other task
NoMicrotask == \A i \in 1..Len(inflight) : ~inflight[i].aborted

Remove(reqs, i) == SubSeq(reqs, 1, i - 1) \o SubSeq(reqs, i + 1, Len(reqs))

-----------------------------------------------------------------------------
(* debounce *)

ClearTimeout(ts) == SelectSeq(ts, LAMBDA x : ~x.isT)

SetTimeout(ts, wait) ==
  Append([i \in 1..Len(ts) |-> [ts[i] EXCEPT !.isT = FALSE]],
         [remaining |-> wait, isT |-> TRUE])

\* a debounce that forgets clearTimeout
DebouncedNoClear(ts, wait) == SetTimeout(ts, wait)

\* the function returned by debounce(fn, wait)
Debounced(ts, wait) == SetTimeout(ClearTimeout(ts), wait)

TimerDue == \E i \in 1..Len(timers) : timers[i].remaining = 0

Min(a, b) == IF a < b THEN a ELSE b

-----------------------------------------------------------------------------
(* MediaItem edge lists and the selectors of codice.php *)

\* node.favourites absent or null
Missing == -1

\* item.characters / item.staff: absent, or an object whose edges is an array
\* or something else
Connection(present, isArray, edges) ==
  [present |-> present, isArray |-> isArray, edges |-> edges]

AbsentConnection == Connection(FALSE, FALSE, << >>)

\* an edge: role is << >> when null; name and image are "" when the node has
\* none; hasNode is FALSE for a null edge or an edge without node
Edge(hasNode, role, fav, name, image) ==
  [hasNode |-> hasNode, role |-> role, fav |-> fav, name |-> name, image |-> image]

NoItem == [characters |-> AbsentConnection, staff |-> AbsentConnection]

UpperChars ==
  <<"A", "B", "C", "D", "E", "F", "G", "H", "I", "J", "K", "L", "M",
    "N", "O", "P", "Q", "R", "S", "T", "U", "V", "W", "X", "Y", "Z">>

LowerChars ==
  <<"a", "b", "c", "d", "e", "f", "g", "h", "i", "j", "k", "l", "m",
    "n", "o", "p", "q", "r", "s", "t", "u", "v", "w", "x", "y", "z">>

\* String.prototype.toUpperCase
ToUpperCase(s) ==
  [i \in 1..Len(s) |->
     IF \E k \in 1..26 : LowerChars[k] = s[i]
       THEN UpperChars[CHOOSE k \in 1..26 : LowerChars[k] = s[i]]
       ELSE s[i]]

\* String.prototype.includes
Includes(s, sub) ==
  \E i \in 0..(Len(s) - Len(sub)) : SubSeq(s, i + 1, i + Len(sub)) = sub

\* e => true: every edge is kept
AnyEdge(e) == TRUE

\* e => e && e.node
Valid(e) == e.hasNode

\* the role compared as it is written
IsMainExact(e) == e.role # << >> /\ Includes(e.role, <<"M", "A", "I", "N">>)

\* e => e.role && String(e.role).toUpperCase().includes('MAIN')
IsMain(e) ==
  e.role # << >> /\ Includes(ToUpperCase(e.role), <<"M", "A", "I", "N">>)

\* e => e.role && /story|original|creator|author/i.test(e.role)
IsCreator(e) ==
  /\ e.role # << >>
  /\ \E w \in { <<"S", "T", "O", "R", "Y">>,
                <<"O", "R", "I", "G", "I", "N", "A", "L">>,
                <<"C", "R", "E", "A", "T", "O", "R">>,
                <<"A", "U", "T", "H", "O", "R">> } :
       Includes(ToUpperCase(e.role), w)

\* e => typeof e.node.favourites === 'number'
HasNumericFav(e) == e.fav # Missing

\* e => e.node && e.node.name && e.node.name.full
HasName(e) == e.hasNode /\ e.name # ""

\* node.favourites || 0
FavOr0(e) == IF e.fav = Missing THEN 0 ELSE e.fav

\* every e.node.x read on these edges finds a node
Derefs(edges) == \A i \in 1..Len(edges) : edges[i].hasNode

RECURSIVE InsertBeforeTies(_, _)
\* an insertion that puts an edge in front of the edges it ties with
InsertBeforeTies(sorted, e) ==
  IF sorted = << >> THEN << e >>
  ELSE IF FavOr0(Head(sorted)) > FavOr0(e)
    THEN << Head(sorted) >> \o InsertBeforeTies(Tail(sorted), e)
    ELSE << e >> \o sorted

RECURSIVE InsertByFav(_, _)
\* e goes behind every edge that the comparator (b.fav||0) - (a.fav||0)
\* does not order after it
InsertByFav(sorted, e) ==
  IF sorted = << >> THEN << e >>
  ELSE IF FavOr0(Head(sorted)) >= FavOr0(e)
    THEN << Head(sorted) >> \o InsertByFav(Tail(sorted), e)
    ELSE << e >> \o sorted

RECURSIVE SortFrom(_, _)
SortFrom(rest, sorted) ==
  IF rest = << >> THEN sorted
  ELSE SortFrom(Tail(rest), InsertByFav(sorted, Head(rest)))

\* Array.prototype.sort with the favourites comparator: a stable sort
SortByFav(edges) == SortFrom(edges, << >>)

\* the arrays a selector works on: the edges of its argument and the arrays
\* that filter creates
Heap(input) ==
  [ input |-> input, edges |-> << >>, mainEdges |-> << >>,
    edgesWithFav |-> << >>, candidates |-> << >> ]

\* arr.sort(...) sorts the array that the reference names, in place
SortInPlace(h, ref) == [h EXCEPT ![ref] = SortByFav(h[ref])]

\* what a selector returns: null, an object, or a TypeError thrown
PickNull == [kind |-> "null", name |-> "", image |-> ""]

Thrown == [kind |-> "throw", name |-> "", image |-> ""]

\* { name: e.node.name?.full || '', image: e.node.image?.medium || '' }
Selected(e) ==
  IF e.hasNode THEN [kind |-> "value", name |-> e.name, image |-> e.image]
  ELSE Thrown

\* the first element after arr.sort(comparator); the comparator reads
\* a.node and b.node when the array has two elements or more
FirstSorted(arr, sorted) ==
  IF Len(arr) > 1 /\ ~Derefs(arr) THEN Thrown ELSE Selected(sorted[1])

\* pickProtagonist(characters): the value returned and the arrays afterwards
PickProtagonist(characters) ==
  IF ~characters.present \/ ~characters.isArray
    THEN [result |-> PickNull, heap |-> Heap(characters.edges)]
  ELSE
    LET h1 == [Heap(characters.edges) EXCEPT
                 !.edges = SelectSeq(characters.edges, Valid)] IN
    IF h1.edges = << >> THEN [result |-> PickNull, heap |-> h1]
    ELSE
      LET h2 == [h1 EXCEPT !.mainEdges = SelectSeq(h1.edges, IsMain)] IN
      IF Len(h2.mainEdges) = 1
        THEN [result |-> Selected(h2.mainEdges[1]), heap |-> h2]
      ELSE IF Len(h2.mainEdges) > 1
        THEN LET h3 == SortInPlace(h2, "mainEdges") IN
             [result |-> FirstSorted(h2.mainEdges, h3.mainEdges), heap |-> h3]
      ELSE IF ~Derefs(h2.edges)
        THEN [result |-> Thrown, heap |-> h2]
      ELSE
        LET h3 == [h2 EXCEPT !.edgesWithFav = SelectSeq(h2.edges, HasNumericFav)] IN
        IF h3.edgesWithFav # << >>
          THEN LET h4 == SortInPlace(h3, "edgesWithFav") IN
               [result |-> FirstSorted(h3.edgesWithFav, h4.edgesWithFav), heap |-> h4]
        ELSE IF \E i \in 1..Len(h3.edges) : HasName(h3.edges[i])
          THEN LET i == CHOOSE i \in 1..Len(h3.edges) :
                          /\ HasName(h3.edges[i])
                          /\ \A j \in 1..(i - 1) : ~HasName(h3.edges[j])
                   e == h3.edges[i] IN
               [result |-> [kind |-> "value", name |-> e.name, image |-> e.image],
                heap |-> h3]
        ELSE [result |-> PickNull, heap |-> h3]

\* candidates as a second name of the array staff.edges
StaffEdgesRef == "input"

\* `candidates = edges` makes candidates a second name of the array edges
AllEdgesRef == "edges"

\* pickMainStaff(staff): the value returned and the arrays afterwards
PickMainStaff(staff) ==
  IF ~staff.present \/ ~staff.isArray
    THEN [result |-> PickNull, heap |-> Heap(staff.edges)]
  ELSE
    LET h1 == [Heap(staff.edges) EXCEPT !.edges = SelectSeq(staff.edges, Valid)] IN
    IF h1.edges = << >> THEN [result |-> PickNull, heap |-> h1]
    ELSE
      LET h2 == [h1 EXCEPT !.candidates = SelectSeq(h1.edges, IsCreator)]
          candidates == IF h2.candidates = << >> THEN AllEdgesRef ELSE "candidates"
          h3 == SortInPlace(h2, candidates)
          pick == FirstSorted(h2[candidates], h3[candidates]) IN
      [result |-> [pick EXCEPT !.image = ""], heap |-> h3]

-----------------------------------------------------------------------------
(* One row of renderTable of codice.php *)

NotRendered ==
  [ rendered    |-> FALSE,
    threw       |-> FALSE,
    picked      |-> PickNull,       \* what pickProtagonist returned
    staffPicked |-> PickNull,       \* what pickMainStaff returned
    protagonist |-> [name |-> "", image |-> ""],   \* the Protagonist cell
    mainStaff   |-> [name |-> ""] ] \* the Creator cell

\* x || { name: '', image: '' }
OrBlank(pick) ==
  IF pick.kind = "null" THEN [name |-> "", image |-> ""]
  ELSE [name |-> pick.name, image |-> pick.image]

\* the body of mediaList.forEach: the two selectors, then the cells
RenderRow ==
  LET p == PickProtagonist(mediaItem.characters)
      s == PickMainStaff(mediaItem.staff) IN
  /\ mediaItem' = [ characters |-> [mediaItem.characters EXCEPT !.edges = p.heap.input],
                    staff      |-> [mediaItem.staff EXCEPT !.edges = s.heap.input] ]
  /\ resolved' =
       IF p.result.kind = "throw" \/ s.result.kind = "throw"
         THEN [NotRendered EXCEPT !.threw = TRUE]
         ELSE [ rendered    |-> TRUE,
                threw       |-> FALSE,
                picked      |-> p.result,
                staffPicked |-> s.result,
                protagonist |-> OrBlank(p.result),
                mainStaff   |-> [name |-> OrBlank(s.result).name] ]
  /\ UNCHANGED animeVars
  /\ UNCHANGED state

RoleMain == <<"M", "A", "I", "N">>
RoleMainMixed == <<"M", "a", "i", "n">>
RoleSupporting == <<"S", "U", "P", "P", "O", "R", "T", "I", "N", "G">>
RoleStory == <<"S", "t", "o", "r", "y">>
RoleAuthor == <<"A", "U", "T", "H", "O", "R">>
RoleArt == <<"A", "r", "t">>

\* character edges the API may deliver
CharacterEdges ==
  { Edge(FALSE, RoleMain, Missing, "", ""),
    Edge(TRUE, RoleMain, 500, "Bea", "bea.png"),
    Edge(TRUE, RoleMainMixed, 900, "Cleo", "cleo.png"),
    Edge(TRUE, RoleMain, 500, "Dan", ""),
    Edge(TRUE, RoleMain, Missing, "Gus", ""),
    Edge(TRUE, RoleSupporting, 700, "Eve", "eve.png"),
    Edge(TRUE, RoleSupporting, 0, "Hal", ""),
    Edge(TRUE, << >>, 700, "Fay", ""),
    Edge(TRUE, << >>, Missing, "Alice", "alice.png"),
    Edge(TRUE, << >>, Missing, "", "") }

\* staff edges the API may deliver
StaffEdges ==
  { Edge(FALSE, RoleStory, Missing, "", ""),
    Edge(TRUE, RoleStory, 500, "Ito", ""),
    Edge(TRUE, RoleAuthor, 900, "Jun", ""),
    Edge(TRUE, RoleStory, 500, "Kai", ""),
    Edge(TRUE, RoleStory, Missing, "", ""),
    Edge(TRUE, RoleArt, 700, "Lee", ""),
    Edge(TRUE, RoleArt, Missing, "Moe", ""),
    Edge(TRUE, << >>, 0, "Ned", "") }

EdgeLists(edges) == UNION { [1..n -> edges] : n \in 0..MaxEdges }

\* values of item.characters or item.staff over a set of edges
Connections(edges) ==
  { AbsentConnection, Connection(TRUE, FALSE, << >>) }
    \cup { Connection(TRUE, TRUE, l) : l \in EdgeLists(edges) }

-----------------------------------------------------------------------------
(* Tasks of the anime-search flow *)

envUnchanged == UNCHANGED <<serverLastPage, state, mediaItem, resolved>>

idle == UNCHANGED <<statusEl, searchBtn, errorEl, tableHolder, pager,
                    currentPage, lastQuery, lastPageInfo, abortController,
                    cache, inflight, lastCallKey, budget, stored>>

\* the user edits the search box: the 'input' listener is the debounced function
TypeInput(v) ==
  /\ NoMicrotask /\ ~TimerDue
  /\ v # searchInput
  /\ searchInput' = v
  /\ timers' = Debounced(timers, DEBOUNCE_WAIT)
  /\ sinceInput' = 0
  /\ burst' = IF timers = << >>
                THEN [typed |-> TRUE, multi |-> FALSE, fires |-> 0]
                ELSE [burst EXCEPT !.multi = TRUE]
  /\ lastEvent' = Ev("input")
  /\ UNCHANGED perPageSelect
  /\ idle /\ envUnchanged

\* time passes, up to the next due timer
Tick ==
  /\ NoMicrotask /\ ~TimerDue
  /\ timers # << >>
  /\ LET d == Min(TickMs, timers[1].remaining) IN
     /\ timers' = [i \in 1..Len(timers) |->
                     [timers[i] EXCEPT !.remaining = IF @ > d THEN @ - d ELSE 0]]
     /\ sinceInput' = Min(DEBOUNCE_WAIT, sinceInput + d)
  /\ lastEvent' = Ev("tick")
  /\ UNCHANGED <<searchInput, perPageSelect, burst>>
  /\ idle /\ envUnchanged

\* the timer callback: fn.apply(null, args), i.e. doSearch(1)
TimerFire ==
  /\ NoMicrotask
  /\ timers # << >> /\ timers[1].remaining = 0
  /\ timers' = Tail(timers)
  /\ burst' = [burst EXCEPT !.fires = @ + 1]
  /\ DoSearch(1, searchInput, perPageSelect, "timer")
  /\ UNCHANGED <<searchInput, perPageSelect, sinceInput, stored>>
  /\ envUnchanged

\* keydown with e.key === 'Enter'
PressEnter ==
  /\ NoMicrotask /\ ~TimerDue
  /\ DoSearch(1, searchInput, perPageSelect, "enter")
  /\ UNCHANGED <<searchInput, perPageSelect, timers, sinceInput, burst, stored>>
  /\ envUnchanged

\* click on the search button (a disabled button dispatches no click)
ClickSearch ==
  /\ NoMicrotask /\ ~TimerDue
  /\ ~searchBtn.disabled
  /\ DoSearch(1, searchInput, perPageSelect, "click")
  /\ UNCHANGED <<searchInput, perPageSelect, timers, sinceInput, burst, stored>>
  /\ envUnchanged

NoOp(op) ==
  /\ lastEvent' = Ev(op)
  /\ UNCHANGED <<statusEl, currentPage, lastQuery, lastPageInfo,
                 abortController, cache, inflight, searchBtn, errorEl,
                 tableHolder, pager, lastCallKey, budget>>

\* click on prevBtn
ClickPrev ==
  /\ NoMicrotask /\ ~TimerDue
  /\ pager.display = "flex" /\ ~pager.prevDisabled
  /\ IF currentPage > 1
       THEN DoSearch(currentPage - 1, searchInput, perPageSelect, "prev")
       ELSE NoOp("prev")
  /\ UNCHANGED <<searchInput, perPageSelect, timers, sinceInput, burst, stored>>
  /\ envUnchanged

\* click on nextBtn
ClickNext ==
  /\ NoMicrotask /\ ~TimerDue
  /\ pager.display = "flex" /\ ~pager.nextDisabled
  /\ currentPage + 1 <= PageCap
  /\ IF lastPageInfo # NullPageInfo /\ lastPageInfo.hasNextPage
       THEN DoSearch(currentPage + 1, searchInput, perPageSelect, "next")
       ELSE NoOp("next")
  /\ UNCHANGED <<searchInput, perPageSelect, timers, sinceInput, burst, stored>>
  /\ envUnchanged

\* 'change' on the page-size select
ChangePerPage(v) ==
  /\ NoMicrotask /\ ~TimerDue
  /\ v # perPageSelect
  /\ perPageSelect' = v
  /\ DoSearch(1, searchInput, v, "perpage")
  /\ UNCHANGED <<searchInput, timers, sinceInput, burst, stored>>
  /\ envUnchanged

-----------------------------------------------------------------------------
(* Continuations of fetchAnilist and doSearch *)

formUnchanged == UNCHANGED <<searchInput, perPageSelect, timers, sinceInput,
                             burst, currentPage, lastQuery, abortController,
                             lastCallKey, budget>>

\* a failure that leaves the search button as it was
FailLeavesDisabled(i, message, outcome, errors) ==
  /\ errorEl' = ShowError("Errore: " \o message)
  /\ statusEl' = "Errore durante il caricamento."
  /\ inflight' = Remove(inflight, i)
  /\ lastEvent' = [Ev("settle") EXCEPT !.key = inflight[i].key, !.outcome = outcome,
                                         !.errors = errors, !.stale = inflight[i].stale]
  /\ UNCHANGED <<searchBtn, lastPageInfo, cache, tableHolder, pager, stored>>

\* catch (err) with a non-abort error, then finally; doSearch gets null
Fail(i, message, outcome, errors) ==
  /\ errorEl' = ShowError("Errore: " \o message)
  /\ statusEl' = "Errore durante il caricamento."
  /\ searchBtn' = [disabled |-> FALSE]
  /\ inflight' = Remove(inflight, i)
  /\ lastEvent' = [Ev("settle") EXCEPT !.key = inflight[i].key, !.outcome = outcome,
                                         !.errors = errors, !.stale = inflight[i].stale]
  /\ UNCHANGED <<lastPageInfo, cache, tableHolder, pager, stored>>

\* fetch() rejects: transport failure
FetchRejects(i) ==
  /\ NoMicrotask /\ ~TimerDue
  /\ i \in 1..Len(inflight) /\ inflight[i].stage = "fetch"
  /\ Fail(i, "Failed to fetch", "transport", << >>)
  /\ formUnchanged /\ envUnchanged

\* fetch() resolves with the response head; res.ok decides which body is read
FetchResolves(i, ok) ==
  /\ NoMicrotask /\ ~TimerDue
  /\ i \in 1..Len(inflight) /\ inflight[i].stage = "fetch"
  /\ inflight' = [inflight EXCEPT ![i].stage = IF ok THEN "json" ELSE "text"]
  /\ lastEvent' = [Ev("head") EXCEPT !.key = inflight[i].key, !.stale = inflight[i].stale]
  /\ UNCHANGED <<statusEl, searchBtn, errorEl, tableHolder, pager,
                 lastPageInfo, cache, stored>>
  /\ formUnchanged /\ envUnchanged

\* res.text() resolves: throw new Error(`HTTP ${res.status} - ${text || res.statusText}`)
TextResolves(i, text) ==
  /\ NoMicrotask /\ ~TimerDue
  /\ i \in 1..Len(inflight) /\ inflight[i].stage = "text"
  /\ Fail(i, "HTTP " \o ToString(500) \o " - " \o OrElse(text, "Internal Server Error"),
          "http", << >>)
  /\ formUnchanged /\ envUnchanged

\* res.json() resolves with {errors: [...]}
JsonErrors(i, errors) ==
  /\ NoMicrotask /\ ~TimerDue
  /\ i \in 1..Len(inflight) /\ inflight[i].stage = "json"
  /\ Fail(i, Join(errors, "; "), "api", errors)
  /\ formUnchanged /\ envUnchanged

\* res.json() resolves with {data: {Page}}: rest of fetchAnilist, then of doSearch
JsonData(i) ==
  /\ NoMicrotask /\ ~TimerDue
  /\ i \in 1..Len(inflight) /\ inflight[i].stage = "json"
  /\ LET r == inflight[i]
         pageData == ServerPage(r.search, r.page, r.perPage) IN
     /\ lastPageInfo' = pageData.pageInfo
     /\ statusEl' = "Mostrati"
     /\ cache' = CachePut(cache, r.key, pageData)
     /\ stored' = Append(stored, r.key)
     /\ searchBtn' = [disabled |-> FALSE]
     /\ tableHolder' = RenderTable(pageData.media)
     /\ pager' = RenderPager(ClearTablePager(pager), pageData.pageInfo)
     /\ inflight' = Remove(inflight, i)
     /\ lastEvent' = [Ev("settle") EXCEPT !.key = r.key, !.outcome = "ok",
                                         !.rendered = TRUE, !.stale = r.stale]
  /\ UNCHANGED errorEl
  /\ formUnchanged /\ envUnchanged

\* the AbortError handled like any other error
AbortedResumesAsError(i) ==
  /\ i \in 1..Len(inflight) /\ inflight[i].aborted
  /\ Fail(i, "The user aborted a request.", "abort", << >>)
  /\ formUnchanged /\ envUnchanged

\* the awaited promise of an aborted request rejects with AbortError:
\* catch, finally, and doSearch gets null
AbortedResumes(i) ==
  /\ i \in 1..Len(inflight) /\ inflight[i].aborted
  /\ statusEl' = "Richiesta annullata."
  /\ searchBtn' = [disabled |-> FALSE]
  /\ inflight' = Remove(inflight, i)
  /\ lastEvent' = [Ev("settle") EXCEPT !.key = inflight[i].key, !.outcome = "abort",
                                         !.stale = inflight[i].stale]
  /\ UNCHANGED <<errorEl, lastPageInfo, cache, tableHolder, pager, stored>>
  /\ formUnchanged /\ envUnchanged

-----------------------------------------------------------------------------
(* The anime-search widget *)

\* the markup is not part of the sources: the pager may start shown or hidden
PagerDisplays == {"none", "flex"}

InitAnime ==
  /\ searchInput = << >>
  /\ perPageSelect = <<"2", "0">>
  /\ statusEl = "Pronto. Inserisci un termine e premi Cerca (o digita)."
  /\ searchBtn = [disabled |-> FALSE]
  /\ errorEl = ClearError
  /\ tableHolder = BlankTable
  /\ \E d \in PagerDisplays :
       pager = [display |-> d, prevDisabled |-> FALSE, nextDisabled |-> FALSE]
  /\ currentPage = 1
  /\ lastQuery = << >>
  /\ lastPageInfo = NullPageInfo
  /\ abortController = Null
  /\ cache = << >>
  /\ timers = << >>
  /\ inflight = << >>
  /\ sinceInput = 0
  /\ burst = [typed |-> FALSE, multi |-> FALSE, fires |-> 0]
  /\ lastCallKey = NoKey
  /\ stored = << >>
  /\ lastEvent = Ev("init")
  /\ state = [currentFormat |-> Null, page |-> 1, perPage |-> CAT_PER_PAGE,
              search |-> << >>]
  /\ mediaItem = NoItem
  /\ resolved = NotRendered

Init ==
  /\ InitAnime
  /\ serverLastPage = SmallCatalog
  /\ budget = MaxRequests

Next ==
  \/ \E v \in InputValues : TypeInput(v)
  \/ Tick
  \/ TimerFire
  \/ PressEnter
  \/ ClickSearch
  \/ ClickPrev
  \/ ClickNext
  \/ \E v \in PerPageValues : ChangePerPage(v)
  \/ \E i \in 1..Len(inflight) : FetchRejects(i)
  \/ \E i \in 1..Len(inflight) : \E ok \in BOOLEAN : FetchResolves(i, ok)
  \/ \E i \in 1..Len(inflight) : \E text \in {"", "down"} : TextResolves(i, text)
  \/ \E i \in 1..Len(inflight) : \E errors \in ErrorLists : JsonErrors(i, errors)
  \/ \E i \in 1..Len(inflight) : JsonData(i)
  \/ \E i \in 1..Len(inflight) : AbortedResumes(i)

Spec == Init /\ [][Next]_vars

-----------------------------------------------------------------------------
(* The anime-search widget paging through a catalog larger than the cache: *)
(* one search term, every request answered before the next click           *)

InitCache ==
  /\ InitAnime
  /\ serverLastPage = CACHE_LIMIT + CacheExtra
  /\ budget = CACHE_LIMIT + CacheExtra

Quiet == inflight = << >>

NextCache ==
  \/ TypeInput(<<"a">>)
  \/ Tick
  \/ TimerFire
  \/ Quiet /\ ClickNext
  \/ Quiet /\ ClickPrev
  \/ \E i \in 1..Len(inflight) : FetchResolves(i, TRUE)
  \/ \E i \in 1..Len(inflight) : JsonData(i)

SpecCache == InitCache /\ [][NextCache]_vars

\* paging forward through the large catalog and, when the cache has become
\* full and before it overflows, searching a second term and the first again
NextFifo ==
  \/ TypeInput(<<"a">>)
  \/ Len(stored) = CACHE_LIMIT /\ TypeInput(<<" ", "b", " ">>)
  \/ Tick
  \/ TimerFire
  \/ Quiet /\ ClickNext
  \/ \E i \in 1..Len(inflight) : FetchResolves(i, TRUE)
  \/ \E i \in 1..Len(inflight) : JsonData(i)

SpecFifo == InitCache /\ [][NextFifo]_vars

-----------------------------------------------------------------------------
(* The category-driven widget (codice.php) *)

Formats == {"MANGA", "NOVEL", "MANHWA", "MANHUA"}

DEFAULT_TAG_EXCLUDE ==
  <<"Hentai", "Ecchi", "Adult", "Erotica", "Sexual Content", "Nudity">>

\* setError(e)
SetError(e) ==
  [display |-> IF e # "" THEN "block" ELSE "none", textContent |-> e]

\* format_in of fetchData
FormatIn(currentFormat) ==
  IF currentFormat = "NOVEL" THEN <<"NOVEL">> ELSE <<"MANGA">>

\* MANGA sent without a country, as before the JP filter was added
CountryNoJP(currentFormat) ==
  IF currentFormat = "NOVEL" THEN Null
  ELSE IF currentFormat = "MANHWA" THEN "KR"
  ELSE IF currentFormat = "MANHUA" THEN "CN"
  ELSE Null

\* country of fetchData; Null when no country is forced
Country(currentFormat) ==
  IF currentFormat = "NOVEL" THEN Null
  ELSE IF currentFormat = "MANHWA" THEN "KR"
  ELSE IF currentFormat = "MANHUA" THEN "CN"
  ELSE IF currentFormat = "MANGA" THEN "JP"
  ELSE Null

\* the variables object of fetchData; country is a key only if set
Variables(st) ==
  LET base == [ page       |-> st.page,
                perPage    |-> st.perPage,
                search     |-> IF st.search = << >> THEN JsNull ELSE st.search,
                format_in  |-> FormatIn(st.currentFormat),
                tag_not_in |-> DEFAULT_TAG_EXCLUDE ] IN
  IF Country(st.currentFormat) # Null
    THEN [ page       |-> base.page,
           perPage    |-> base.perPage,
           search     |-> base.search,
           format_in  |-> base.format_in,
           tag_not_in |-> base.tag_not_in,
           country    |-> Country(st.currentFormat) ]
    ELSE base

\* data.data.Page for the variables of a request
CatPage(variables) ==
  [ pageInfo |-> [ total       |-> serverLastPage * variables.perPage,
                   currentPage |-> variables.page,
                   lastPage    |-> serverLastPage ],
    media    |-> IF variables.page <= serverLastPage
                   THEN << variables >> ELSE << >> ]

catIdle == UNCHANGED <<perPageSelect, searchBtn, currentPage, lastQuery,
                       lastPageInfo, abortController, cache, timers,
                       sinceInput, burst, lastCallKey, stored, serverLastPage,
                       mediaItem, resolved>>

\* fetchData up to `await fetch`
FetchData(st, op) ==
  /\ budget > 0
  /\ budget' = budget - 1
  /\ errorEl' = SetError("")
  /\ statusEl' = "Caricamento..."
  /\ tableHolder' = BlankTable
  /\ inflight' = Append(Supersede(inflight),
                        [ variables |-> Variables(st),
                          format    |-> st.currentFormat,
                          stale     |-> FALSE ])
  /\ lastEvent' = [Ev(op) EXCEPT !.net = TRUE]
  /\ UNCHANGED pager

\* the category-driven flow checks no category
CatDoSearchUnchecked(st, page, op) ==
  /\ state' = [st EXCEPT !.page = page, !.search = Trim(searchInput)]
  /\ FetchData(state', op)

\* doSearch(page) of the category-driven flow, from the state st the
\* listener has prepared
CatDoSearch(st, page, op) ==
  IF st.currentFormat = Null
    THEN /\ errorEl' = SetError("Seleziona una sottocategoria.")
         /\ state' = st
         /\ lastEvent' = Ev(op)
         /\ UNCHANGED <<statusEl, tableHolder, pager, inflight, budget>>
    ELSE /\ state' = [st EXCEPT !.page = page, !.search = Trim(searchInput)]
         /\ FetchData(state', op)

\* a category button that searches the page the state is on
ClickCategoryKeepsPage(f) ==
  /\ CatDoSearch([state EXCEPT !.currentFormat = f], state.page, "category")
  /\ UNCHANGED searchInput
  /\ catIdle

\* click on one of the four category buttons
ClickCategory(f) ==
  /\ CatDoSearch([state EXCEPT !.currentFormat = f, !.page = 1], 1, "category")
  /\ UNCHANGED searchInput
  /\ catIdle

\* the user edits the search box (no listener)
CatTypeInput(v) ==
  /\ v # searchInput
  /\ searchInput' = v
  /\ lastEvent' = Ev("input")
  /\ UNCHANGED <<state, statusEl, errorEl, tableHolder, pager, inflight, budget>>
  /\ catIdle

CatClickSearch ==
  /\ CatDoSearch(state, 1, "click")
  /\ UNCHANGED searchInput
  /\ catIdle

CatPressEnter ==
  /\ CatDoSearch(state, 1, "enter")
  /\ UNCHANGED searchInput
  /\ catIdle

\* if (state.page>1) doSearch(state.page-1)
CatClickPrev ==
  /\ pager.display = "flex"
  /\ IF state.page > 1
       THEN CatDoSearch(state, state.page - 1, "prev")
       ELSE /\ lastEvent' = Ev("prev")
            /\ UNCHANGED <<state, statusEl, errorEl, tableHolder, pager, inflight,
                           budget>>
  /\ UNCHANGED searchInput
  /\ catIdle

\* state.page++; doSearch(state.page)
CatClickNext ==
  /\ pager.display = "flex"
  /\ state.page + 1 <= PageCap
  /\ CatDoSearch([state EXCEPT !.page = @ + 1], state.page + 1, "next")
  /\ UNCHANGED searchInput
  /\ catIdle

\* the rest of doSearch after fetchData returned data.data.Page: renderTable
CatJsonData(i) ==
  /\ i \in 1..Len(inflight)
  /\ LET r == inflight[i]
         pageData == CatPage(r.variables) IN
     /\ IF pageData.media = << >>
          THEN /\ tableHolder' = [kind |-> "none", media |-> << >>]
               /\ pager' = [pager EXCEPT !.display = "none"]
               /\ statusEl' = "Nessun risultato trovati."
          ELSE /\ tableHolder' = [kind |-> "rows", media |-> pageData.media]
               /\ pager' = [pager EXCEPT !.display = "flex"]
               /\ statusEl' = "Mostrati"
     /\ inflight' = Remove(inflight, i)
     /\ lastEvent' = [Ev("settle") EXCEPT !.outcome = "ok", !.rendered = TRUE,
                                          !.stale = r.stale]
  /\ UNCHANGED <<searchInput, state, errorEl, budget>>
  /\ catIdle

\* the catch of doSearch
CatFail(i, message, outcome, errors) ==
  /\ i \in 1..Len(inflight)
  /\ errorEl' = SetError(message)
  /\ statusEl' = "Errore durante il caricamento."
  /\ inflight' = Remove(inflight, i)
  /\ lastEvent' = [Ev("settle") EXCEPT !.outcome = outcome, !.errors = errors,
                                       !.stale = inflight[i].stale]
  /\ UNCHANGED <<searchInput, state, tableHolder, pager, budget>>
  /\ catIdle

\* resp.json() gives {errors: [...]}
CatJsonErrors(i, errors) == CatFail(i, Join(errors, "; "), "api", errors)

\* fetch() rejects
CatFetchRejects(i) == CatFail(i, "Failed to fetch", "transport", << >>)

\* the category page after init()
InitCatPage ==
  /\ searchInput = << >>
  /\ perPageSelect = << >>
  /\ statusEl = "Pronto. Seleziona una sottocategoria per caricare i risultati."
  /\ searchBtn = [disabled |-> FALSE]
  /\ errorEl = SetError("")
  /\ tableHolder = BlankTable
  /\ \E d \in PagerDisplays :
       pager = [display |-> d, prevDisabled |-> FALSE, nextDisabled |-> FALSE]
  /\ inflight = << >>
  /\ state = [currentFormat |-> Null, page |-> 1, perPage |-> CAT_PER_PAGE,
              search |-> << >>]
  /\ currentPage = 1
  /\ lastQuery = << >>
  /\ lastPageInfo = NullPageInfo
  /\ abortController = Null
  /\ cache = << >>
  /\ timers = << >>
  /\ sinceInput = 0
  /\ budget = MaxCatRequests
  /\ burst = [typed |-> FALSE, multi |-> FALSE, fires |-> 0]
  /\ lastCallKey = NoKey
  /\ stored = << >>
  /\ lastEvent = Ev("init")
  /\ serverLastPage = SmallCatalog

InitCat ==
  /\ InitCatPage
  /\ mediaItem = NoItem
  /\ resolved = NotRendered

NextCat ==
  \/ \E f \in Formats : ClickCategory(f)
  \/ \E v \in CatInputValues : CatTypeInput(v)
  \/ CatClickSearch
  \/ CatPressEnter
  \/ CatClickPrev
  \/ CatClickNext
  \/ \E i \in 1..Len(inflight) : CatJsonData(i)
  \/ \E i \in 1..Len(inflight) : \E errors \in ErrorLists : CatJsonErrors(i, errors)
  \/ \E i \in 1..Len(inflight) : CatFetchRejects(i)

SpecCat == InitCat /\ [][NextCat]_vars

-----------------------------------------------------------------------------
(* Either page, as loaded by the browser *)

\* only the anime-search page has the page-size select
AnimePageLoaded == perPageSelect # << >>

InitPages == Init \/ InitCat

NextPages ==
  \/ AnimePageLoaded /\ Next
  \/ ~AnimePageLoaded /\ NextCat

SpecPages == InitPages /\ [][NextPages]_vars

-----------------------------------------------------------------------------
(* renderTable of the category page building the row of one MediaItem *)

\* a MediaItem of an answered page; the two selectors read one list each, so
\* the lists are varied one at a time
InitSelect ==
  /\ InitCatPage
  /\ \E c \in Connections(CharacterEdges), s \in Connections(StaffEdges) :
       /\ c = AbsentConnection \/ s = AbsentConnection
       /\ mediaItem = [characters |-> c, staff |-> s]
  /\ resolved = NotRendered

NextSelect == RenderRow

SpecSelect == InitSelect /\ [][NextSelect]_vars

-----------------------------------------------------------------------------
(* Properties of the anime-search flow *)

\* the step is a call of fetchAnilist (a search trigger that passed validation)
IsCall(ev) == ev.op \in Triggers /\ ev.key # NoKey

KeyCached(key) == \E i \in 1..Len(cache) : cache[i].key = key

Blank(s) == \A i \in 1..Len(s) : s[i] = " "

\* C1: once a later search has been started while a request was pending,
\* the page of that earlier request is never rendered into the table.
C1_StaleNeverRendered ==
  ~(lastEvent.op = "settle" /\ lastEvent.rendered /\ lastEvent.stale)

\* C3 as stated: a call of fetchAnilist with the key of the previous call
\* issues no network call.
C3_SecondCallNoNetwork ==
  [][(IsCall(lastEvent') /\ lastEvent'.key = lastCallKey) => ~lastEvent'.net]_vars

\* C3 amended: a call whose key is in the cache issues no network call and
\* shows the cached page; a call whose key is not in the cache issues exactly
\* one network call, for that key.
C3_CachedKeyNoNetwork ==
  [][IsCall(lastEvent') =>
       LET key == lastEvent'.key IN
       IF KeyCached(key)
         THEN /\ budget' = budget
              /\ Len(inflight') = Len(inflight)
              /\ \E i \in 1..Len(cache) :
                   /\ cache[i].key = key
                   /\ lastPageInfo' = cache[i].value.pageInfo
                   /\ tableHolder'.media = cache[i].value.media
         ELSE /\ budget' = budget - 1
              /\ Len(inflight') = Len(inflight) + 1
              /\ inflight'[Len(inflight')].key = key
              /\ ~inflight'[Len(inflight')].aborted]_vars

\* the same key called again after its page was cached
C3_Witness ==
  /\ IsCall(lastEvent) /\ lastEvent.hit
  /\ lastEvent.key = lastCallKey
  /\ budget = MaxRequests - 1

\* the step in which a cancelled request resumes
CancelledStep ==
  \E i \in 1..Len(inflight) : inflight[i].aborted /\ inflight' = Remove(inflight, i)

\* C5 as stated: a cancelled request writes neither the cache, the status
\* text, the error display nor the search button.
C5_CancelledMutatesNothing ==
  [][CancelledStep => UNCHANGED <<cache, statusEl, errorEl, searchBtn>>]_vars

\* C5 amended: a cancelled request writes neither the cache, lastPageInfo,
\* the error display, the table nor the pager; it sets the status text to
\* 'Richiesta annullata.' and enables the search button.
C5_CancelledOnlyResetsStatus ==
  [][CancelledStep =>
       /\ UNCHANGED <<cache, stored, lastPageInfo, errorEl, tableHolder, pager,
                      currentPage, lastQuery, abortController>>
       /\ statusEl' = "Richiesta annullata."
       /\ searchBtn' = [disabled |-> FALSE]]_vars

\* a cancelled request has resumed while the request that cancelled it is pending
C5_Witness ==
  /\ lastEvent.op = "settle" /\ lastEvent.outcome = "abort"
  /\ Len(inflight) = 1 /\ ~inflight[1].aborted
  /\ statusEl = "Richiesta annullata."

ApiFailed(errors) ==
  lastEvent.op = "settle" /\ lastEvent.outcome = "api" /\ lastEvent.errors = errors

\* C6 as stated: after the error list bad, worse the visible message is
\* "bad; worse" and the key of the request is not cached.
C6_MessageIsJoined ==
  ApiFailed(<<"bad", "worse">>) =>
    /\ errorEl.textContent = "bad; worse"
    /\ ~KeyCached(lastEvent.key)

\* C6 amended: after the error list bad, worse the visible message is
\* "Errore: bad; worse" and the key of the request is not cached.
C6_MessageIsPrefixedJoin ==
  ApiFailed(<<"bad", "worse">>) =>
    /\ errorEl = [display |-> "block", textContent |-> "Errore: bad; worse"]
    /\ ~KeyCached(lastEvent.key)

\* the API answered a request with the two errors
C6_Witness == ApiFailed(<<"bad", "worse">>) /\ errorEl.display = "block"

Distinct(seq) == \A i, j \in 1..Len(seq) : i # j => seq[i] # seq[j]

\* C4: between tasks the cache holds at most CACHE_LIMIT entries; once
\* CACHE_LIMIT + 1 pages with distinct keys have been stored it holds
\* exactly CACHE_LIMIT, the first stored key is gone and the others remain.
C4_CacheBounded ==
  /\ Len(cache) <= CACHE_LIMIT
  /\ (Len(stored) = CACHE_LIMIT + 1 /\ Distinct(stored)) =>
       /\ Len(cache) = CACHE_LIMIT
       /\ ~KeyCached(stored[1])
       /\ \A j \in 2..Len(stored) : KeyCached(stored[j])

\* the response for the key after the last one that fitted has been stored
C4_Witness ==
  /\ Len(stored) = CACHE_LIMIT + 1 /\ Distinct(stored)
  /\ lastEvent.op = "settle" /\ lastEvent.outcome = "ok"
  /\ lastEvent.key = stored[CACHE_LIMIT + 1]

CacheKeySeq == [i \in 1..Len(cache) |-> cache[i].key]

\* C15: eviction is FIFO by insertion, not LRU: the keys in the cache are, in
\* order, the keys stored last; a cache hit leaves the cache and its order as
\* they are; and no entry but the first is ever removed.
C15_EvictionIsFifo ==
  /\ [](CacheKeySeq = SubSeq(stored, Len(stored) - Len(cache) + 1, Len(stored)))
  /\ [][/\ lastEvent'.hit => cache' = cache
        /\ \A i \in 1..Len(cache) :
             cache[i].key \notin CacheKeys(cache') => i = 1]_vars

\* the oldest entry was read by the most recent call of fetchAnilist, a cache
\* hit, and then evicted by the page of a request that was still pending
C15_Witness ==
  /\ lastEvent.op = "settle" /\ lastEvent.outcome = "ok" /\ lastEvent.stale
  /\ Len(stored) = CACHE_LIMIT + 1
  /\ lastCallKey = stored[1]
  /\ ~KeyCached(lastCallKey)
  /\ Len(cache) = CACHE_LIMIT

\* the search terms a request can carry
SearchTerms == { Trim(v) : v \in InputValues }

\* the entry holds the page the API delivers for the search, page and
\* perPage that make up its key
EntryMatchesKey(entry) ==
  \E q \in SearchTerms :
    /\ entry.key = CacheKey(q, entry.value.pageInfo.currentPage,
                            entry.value.pageInfo.perPage)
    /\ entry.value = ServerPage(q, entry.value.pageInfo.currentPage,
                                entry.value.pageInfo.perPage)

\* C16: every cache entry is the page delivered for exactly the search, page
\* and perPage of its key; the result of a request that failed, was cancelled
\* or had been superseded is not cached; and a cancellation shows nothing in
\* the error banner.
C16_CacheOnlyFromCurrent ==
  /\ [](\A i \in 1..Len(cache) : EntryMatchesKey(cache[i]))
  /\ []((lastEvent.op = "settle" /\ (lastEvent.outcome # "ok" \/ lastEvent.stale))
          => ~KeyCached(lastEvent.key))
  /\ [][CancelledStep => errorEl' = errorEl]_vars

NotAborted == { i \in 1..Len(inflight) : ~inflight[i].aborted }

\* C17: at most one request in flight has a token that is not aborted, and a
\* call that goes to the network has aborted every request started before it
\* when it issues its own.
C17_SingleLiveToken ==
  /\ [](Cardinality(NotAborted) <= 1)
  /\ [][lastEvent'.net =>
          /\ Len(inflight') = Len(inflight) + 1
          /\ \A i \in 1..Len(inflight) : inflight'[i].aborted
          /\ ~inflight'[Len(inflight')].aborted]_vars

\* a new request has just aborted the one that was pending
C17_Witness ==
  /\ lastEvent.net
  /\ Len(inflight) = 2
  /\ inflight[1].aborted /\ inflight[1].stage = "json"
  /\ ~inflight[2].aborted

\* C21: the search button is disabled exactly while a request that was not
\* cancelled is in flight, and the end of a cancelled request leaves it
\* disabled while the request that replaced it is pending.
C21_ButtonTracksRequest ==
  /\ [](searchBtn.disabled <=> NotAborted # {})
  /\ [][(CancelledStep /\ NotAborted' # {}) => searchBtn'.disabled]_vars

\* the step is a call of fetchAnilist from the pager button
PagerCall(ev, button) == ev.op = button /\ ev.key # NoKey

\* C20: when Next issues a request the page requested is the page shown
\* (lastPageInfo.currentPage) plus 1 and not beyond lastPageInfo.lastPage;
\* when Prev issues one it is the page shown minus 1.
C20_PagerStepsFromShownPage ==
  [][/\ PagerCall(lastEvent', "next") =>
          /\ currentPage' = lastPageInfo.currentPage + 1
          /\ currentPage' <= lastPageInfo.lastPage
     /\ PagerCall(lastEvent', "prev") =>
          currentPage' = lastPageInfo.currentPage - 1]_vars

\* C8: a search trigger with blank search text issues no request and leaves
\* the cache, the outstanding request, currentPage and lastPageInfo alone.
C8_BlankSearchNoRequest ==
  [][(lastEvent'.op \in Triggers /\ Blank(searchInput')) =>
       UNCHANGED <<cache, inflight, abortController, currentPage, lastPageInfo,
                   budget>>]_vars

\* a trigger found only blanks in the box while a request was pending
C8_Witness ==
  /\ lastEvent.op \in Triggers
  /\ searchInput = <<" ">>
  /\ statusEl = "Inserisci un termine di ricerca."
  /\ Len(inflight) = 1

\* C10: an input event issues no search; the debounced search runs only when
\* DEBOUNCE_WAIT ms have passed since the last input event; and each burst of
\* input events has one pending timer until its single search has run.
C10_BurstCoalesced ==
  /\ [](burst.typed => Len(timers) + burst.fires = 1)
  /\ [][/\ lastEvent'.op = "input" =>
            UNCHANGED <<inflight, budget, cache, statusEl, currentPage,
                        lastQuery, lastCallKey>>
        /\ lastEvent'.op = "timer" => sinceInput >= DEBOUNCE_WAIT]_vars

\* a burst of several input events has run its one search
C10_Witness ==
  /\ lastEvent.op = "timer" /\ lastEvent.net
  /\ burst.multi /\ burst.fires = 1
  /\ timers = << >>

Failures == {"http", "transport", "api"}

\* the last task was the end of a request that failed or was cancelled
FailedOrCancelled(ev) ==
  ev.op = "settle" /\ ev.outcome \in Failures \cup {"abort"}

\* C11: after a failure (HTTP status, transport, API error list) or a
\* cancellation the widget is retriable: whenever no request is in flight the
\* search button is enabled, the key of the request that ended is not in the
\* cache, and a trigger of the same search right after it issues a new request.
C11_Retriable ==
  /\ [](inflight = << >> => ~searchBtn.disabled)
  /\ [](FailedOrCancelled(lastEvent) => ~KeyCached(lastEvent.key))
  /\ [][(/\ FailedOrCancelled(lastEvent)
          /\ IsCall(lastEvent')
          /\ lastEvent'.key = lastEvent.key) =>
            /\ lastEvent'.net
            /\ budget' = budget - 1
            /\ inflight'[Len(inflight')].key = lastEvent.key
            /\ ~inflight'[Len(inflight')].aborted]_vars

\* the search button was clicked again after the request of the same search
\* had failed, and the new request is pending
C11_Witness ==
  /\ lastEvent.op = "click" /\ lastEvent.retry /\ lastEvent.net
  /\ Len(inflight) = 1 /\ inflight[1].key = lastEvent.key
  /\ errorEl = ClearError

-----------------------------------------------------------------------------
(* Properties of the category-driven flow *)

CatTriggers == {"click", "enter", "prev", "next"}

NoCategoryMessage ==
  [display |-> "block", textContent |-> "Seleziona una sottocategoria."]

\* C2: the table is rendered only from the response of the most recently
\* started request; the response of an earlier request is dropped.
C2_OnlyLatestRendered ==
  ~(lastEvent.op = "settle" /\ lastEvent.rendered /\ lastEvent.stale)

\* C7 as stated: with no category selected, every search trigger issues no
\* request and shows the inline error message.
C7_EveryTriggerShowsError ==
  [][(lastEvent'.op \in CatTriggers /\ state.currentFormat = Null) =>
       /\ inflight' = inflight
       /\ errorEl' = NoCategoryMessage]_vars

\* C7 amended: with no category selected, no search trigger issues a request;
\* the search button, Enter, next, and prev when state.page > 1, show the
\* inline error message; prev when state.page = 1 changes nothing.
C7_NoCategoryNoRequest ==
  [][(lastEvent'.op \in CatTriggers /\ state.currentFormat = Null) =>
       /\ inflight' = inflight
       /\ state'.currentFormat = Null
       /\ UNCHANGED <<statusEl, tableHolder, pager>>
       /\ IF lastEvent'.op = "prev" /\ state.page = 1
            THEN UNCHANGED <<errorEl, state>>
            ELSE errorEl' = NoCategoryMessage]_vars

\* a trigger after earlier ones, still without a category
C7_Witness ==
  /\ state.currentFormat = Null
  /\ lastEvent.op = "prev"
  /\ state.page = 2
  /\ errorEl = NoCategoryMessage
  /\ inflight = << >>

\* the fixed table of the query builder
TableFormat(f) == IF f = "NOVEL" THEN <<"NOVEL">> ELSE <<"MANGA">>

TableCountry(f) ==
  CASE f = "MANGA"  -> "JP"
    [] f = "MANHWA" -> "KR"
    [] f = "MANHUA" -> "CN"

\* C9: every issued request carries format_in and country as the fixed table
\* gives them for the category selected when the request was issued.
C9_VariablesFollowTable ==
  \A i \in 1..Len(inflight) :
    LET r == inflight[i] IN
    /\ r.format \in Formats
    /\ r.variables.format_in = TableFormat(r.format)
    /\ IF r.format = "NOVEL"
         THEN "country" \notin DOMAIN r.variables
         ELSE /\ "country" \in DOMAIN r.variables
              /\ r.variables.country = TableCountry(r.format)
    /\ (lastEvent.net /\ i = Len(inflight)) => r.format = state.currentFormat

\* a NOVEL request and a later MANGA request are both pending
C9_Witness ==
  /\ Len(inflight) = 2
  /\ inflight[1].format = "NOVEL"
  /\ inflight[2].format = "MANGA"
  /\ lastEvent.net

\* the page a pending request of either flow asks for
RequestPage(r) == IF "variables" \in DOMAIN r THEN r.variables.page ELSE r.page

\* C18: in both flows the page number of the state and of every request is
\* at least 1, and a category click sets state.page to 1 and requests page 1.
C18_PageAtLeastOne ==
  /\ [](/\ currentPage >= 1
        /\ state.page >= 1
        /\ \A i \in 1..Len(inflight) : RequestPage(inflight[i]) >= 1)
  /\ [][lastEvent'.op = "category" =>
          /\ state'.currentFormat \in Formats
          /\ state'.page = 1
          /\ lastEvent'.net
          /\ inflight'[Len(inflight')].variables.page = 1]_vars

\* a category was clicked while the request of another category was pending
C18_Witness ==
  /\ lastEvent.op = "category" /\ lastEvent.net
  /\ Len(inflight) = 2
  /\ inflight[1].format # inflight[2].format
  /\ inflight[2].variables.page = 1
  /\ state.page = 1

\* the category-driven flow shows the joined messages as they are
CatMessageIsJoined ==
  ApiFailed(<<"bad", "worse">>) =>
    errorEl = [display |-> "block", textContent |-> "bad; worse"]

-----------------------------------------------------------------------------
(* Properties of the selectors *)

\* two characters that differ at most in case
SameLetter(a, b) ==
  a = b \/ \E k \in 1..26 : {a, b} = {UpperChars[k], LowerChars[k]}

\* the role label contains the word, whatever the case of the letters
ContainsNoCase(role, word) ==
  \E i \in 0..(Len(role) - Len(word)) :
    \A k \in 1..Len(word) : SameLetter(role[i + k], word[k])

ValidIndexes(list) == { i \in 1..Len(list) : list[i].hasNode }

\* the index in S of the highest favourite count, a missing count taken as
\* 0, the earliest in list order among equals
Best(list, S) ==
  CHOOSE i \in S :
    \A j \in S : \/ FavOr0(list[j]) < FavOr0(list[i])
                 \/ FavOr0(list[j]) = FavOr0(list[i]) /\ i <= j

ChosenNode(list, i) ==
  [kind |-> "value", name |-> list[i].name, image |-> list[i].image]

\* the chain specified for the protagonist
ChainProtagonist(list) ==
  LET V == ValidIndexes(list)
      M == { i \in V : ContainsNoCase(list[i].role, <<"M", "A", "I", "N">>) }
      N == { i \in V : list[i].fav # Missing }
      W == { i \in V : list[i].name # "" } IN
  IF M # {} THEN ChosenNode(list, Best(list, M))
  ELSE IF N # {} THEN ChosenNode(list, Best(list, N))
  ELSE IF W # {} THEN ChosenNode(list, CHOOSE i \in W : \A j \in W : i <= j)
  ELSE PickNull

\* the chain specified for the main creator
ChainMainStaff(list) ==
  LET V == ValidIndexes(list)
      C == { i \in V : \E w \in { <<"s", "t", "o", "r", "y">>,
                                  <<"o", "r", "i", "g", "i", "n", "a", "l">>,
                                  <<"c", "r", "e", "a", "t", "o", "r">>,
                                  <<"a", "u", "t", "h", "o", "r">> } :
                         ContainsNoCase(list[i].role, w) }
      S == IF C # {} THEN C ELSE V IN
  [kind |-> "value", name |-> list[Best(list, S)].name, image |-> ""]

IsList(connection) == connection.present /\ connection.isArray

\* C12: for every character-edge list pickProtagonist returns what the chain
\* gives: edges without node dropped; the edge whose role contains MAIN in
\* any case, the highest favourite count and then the earliest if several;
\* else the highest numeric favourite count, the earliest on ties; else the
\* first edge with a name; else nothing.
C12_ProtagonistFollowsChain ==
  (resolved.rendered /\ IsList(mediaItem.characters)) =>
    resolved.picked = ChainProtagonist(mediaItem.characters.edges)

\* two MAIN edges with 500 and 900 favourites, the second written 'Main'
C12_Witness ==
  /\ resolved.rendered
  /\ mediaItem.characters.edges =
       << Edge(TRUE, RoleMain, 500, "Bea", "bea.png"),
          Edge(TRUE, RoleMainMixed, 900, "Cleo", "cleo.png") >>
  /\ resolved.picked.name = "Cleo"

\* C13: for every staff-edge list with an edge that has a node pickMainStaff
\* returns the name of the edge with the highest favourite count (missing = 0,
\* earliest on ties) among the edges whose role matches story, original,
\* creator or author in any case, or among all valid edges if none matches.
C13_MainStaffFollowsChain ==
  (/\ resolved.rendered
   /\ IsList(mediaItem.staff)
   /\ ValidIndexes(mediaItem.staff.edges) # {}) =>
    resolved.staffPicked = ChainMainStaff(mediaItem.staff.edges)

\* a more popular artist in front of two story writers that tie
C13_Witness ==
  /\ resolved.rendered
  /\ mediaItem.staff.edges =
       << Edge(TRUE, RoleArt, 700, "Lee", ""),
          Edge(TRUE, RoleStory, 500, "Ito", ""),
          Edge(TRUE, RoleStory, 500, "Kai", "") >>
  /\ resolved.staffPicked.name = "Ito"

\* the list is absent, is no array, or has no edge with a node
NoValidEdge(connection) ==
  ~IsList(connection) \/ ValidIndexes(connection.edges) = {}

\* no node of the list has a name or an image
NoNamedNode(connection) ==
  \A i \in 1..Len(connection.edges) :
    connection.edges[i].hasNode =>
      connection.edges[i].name = "" /\ connection.edges[i].image = ""

\* C14: the selectors never throw and every MediaItem gets its row; when
\* characters or staff is absent, has no edge array or only edges without
\* node the selector returns null, and then, or when the nodes carry no name
\* and image, the Protagonist and Creator cells are blank.
C14_SelectorsTotal ==
  /\ [](~resolved.threw)
  /\ [][resolved'.rendered]_vars
  /\ [](resolved.rendered =>
          /\ resolved.picked.kind \in {"null", "value"}
          /\ resolved.staffPicked.kind \in {"null", "value"}
          /\ NoValidEdge(mediaItem.characters) => resolved.picked = PickNull
          /\ NoValidEdge(mediaItem.staff) => resolved.staffPicked = PickNull
          /\ (NoValidEdge(mediaItem.characters) \/ NoNamedNode(mediaItem.characters))
               => resolved.protagonist = [name |-> "", image |-> ""]
          /\ (NoValidEdge(mediaItem.staff) \/ NoNamedNode(mediaItem.staff))
               => resolved.mainStaff = [name |-> ""])

\* a row was built from an edge without node and a node without name, image
\* and favourite count, and no staff at all
C14_Witness ==
  /\ resolved.rendered
  /\ mediaItem.characters.edges =
       << Edge(FALSE, RoleMain, Missing, "", ""),
          Edge(TRUE, << >>, Missing, "", "") >>
  /\ mediaItem.staff = AbsentConnection
  /\ resolved.picked = PickNull
  /\ resolved.protagonist = [name |-> "", image |-> ""]
  /\ resolved.mainStaff = [name |-> ""]

\* C19: building the row leaves the edge lists of the MediaItem as they were,
\* and building it again gives the same row.
C19_EdgeListsUntouched ==
  [][/\ mediaItem' = mediaItem
     /\ resolved.rendered => resolved' = resolved]_vars

\* the selector sorted the more popular of two artists to the front of its
\* own array; the staff list still has them in the order received
C19_Witness ==
  /\ resolved.rendered
  /\ mediaItem.staff.edges =
       << Edge(TRUE, RoleArt, Missing, "Moe", ""),
          Edge(TRUE, RoleArt, 700, "Lee", "") >>
  /\ resolved.mainStaff.name = "Lee"

====
